---- MODULE Spec2Model ----
(***************************************************************************)
(* Quick-Show backend: the Inngest functions of server/inngest/index.js    *)
(* (identity sync, booking expiry, reminder sweep) and the favourite       *)
(* toggle of server/controllers/User.controller.js.                        *)
(*                                                                         *)
(* A Mongoose collection is a function whose DOMAIN is the set of stored   *)
(* ids; the result of a lookup is a sequence of length 0 (null) or 1.      *)
(* Every `await` of a handler is one atomic database / network operation,  *)
(* so other handlers may run between two awaits of the same handler.       *)
(***************************************************************************)
EXTENDS Integers, Sequences, FiniteSets, TLC

\* ------------------------------------------------------------------ bounds
MaxAttempts == 2
    \* executions of the check-payment step per workflow (first run + re-runs)
MaxToggles == 3
    \* updateFavourite requests served in one behaviour

\* ------------------------------------------------------------- universes
ShowIds    == {"s1", "s2"}
SeatLabels == {"A1", "A2"}
UserIds    == {"u1", "u2"}
BookingIds == {"b1", "b2"}
MovieIds   == {"m1", "m2", "m3"}
Requests   == {1, 2}          \* concurrent HTTP requests of the one caller

VARIABLES
    shows,       \* Show collection: show id -> [movie, showTime, occupiedSeats]
    bookings,    \* Booking collection: existing booking id -> document
    users,       \* User collection: existing user id -> document
    wf,          \* releaseSeatsAndDeleteBooking run per booking id
    paidEver,    \* history: booking ids whose payment was confirmed
    lastEvent,   \* history: per identity, the last creation-or-deletion event
    userRun,     \* history: the last identity-sync handler run
    sweep,       \* the sendShowReminders run
    clerkMeta,   \* identity provider: the caller's privateMetadata.favorites
    metaWrites,  \* history: metadata writes so far, last writer, requests received
    req          \* updateFavourite requests of the caller

vars == <<shows, bookings, users, wf, paidEver, lastEvent, userRun, sweep,
          clerkMeta, metaWrites, req>>

\* the variables of each component
expiryVars   == <<bookings, wf, paidEver>>
syncVars     == <<lastEvent, userRun>>
reminderVars == <<sweep>>
favVars      == <<clerkMeta, metaWrites, req>>

\* the empty collection / the empty object {}
Empty == [k \in {} |-> k]

\* ---------------------------------------------------------- ODM operations
\* Model.findById: the document, or null
findById(coll, id) == IF id \in DOMAIN coll THEN <<coll[id]>> ELSE <<>>

\* Model.findByIdAndDelete: removes the document if present, no error if absent
findByIdAndDelete(coll, id) == [k \in DOMAIN coll \ {id} |-> coll[k]]

\* (mutant of deleteSeats: the whole mapping is cleared)
deleteSeatsClearsAll(occupiedSeats, bookedSeats) == Empty

\* booking.bookedSeats.forEach(seat => delete show.occupiedSeats[seat])
deleteSeats(occupiedSeats, bookedSeats) ==
    [seat \in DOMAIN occupiedSeats \ bookedSeats |-> occupiedSeats[seat]]

\* (mutant of notPaid: the paid flag is not consulted)
notPaidIgnoresFlag(booking) == TRUE

\* if (!booking.isPaid)
notPaid(booking) == ~booking.isPaid

\* ------------------------------------------------------- quiescent parts
\* Each specification below runs one component; the others stay as here.
WfIdle == [pc |-> "none", attempts |-> 0, booking |-> <<>>, show |-> <<>>,
           saved |-> FALSE, error |-> "", reran |-> FALSE]

ExpiryIdle ==
    /\ bookings = Empty
    /\ wf = [b \in BookingIds |-> WfIdle]
    /\ paidEver = {}

SyncIdle ==
    /\ lastEvent = [id \in UserIds |-> "none"]
    /\ userRun = [handler |-> "none", id |-> "", existed |-> FALSE, threw |-> FALSE]

SweepIdle == [pc |-> "idle", tasks |-> <<>>, status |-> <<>>,
              sendStepRan |-> FALSE, result |-> <<>>]

ReminderIdle == sweep = SweepIdle

ReqIdle == [pc |-> "idle", movieId |-> "", read |-> <<>>, user |-> <<>>,
            verRead |-> 0, alone |-> TRUE, resp |-> ""]

FavIdle ==
    /\ clerkMeta = <<>>
    /\ metaWrites = [count |-> 0, last |-> 0, started |-> 0]
    /\ req = [r \in Requests |-> ReqIdle]

\* an unscheduled show with all seats free
EmptyShow == [movie |-> <<"m1">>, showTime |-> 0, occupiedSeats |-> Empty]

\* ---------------------------------------------------- user sync handlers
\* event.data of a clerk/user.* event
FirstNames     == {"Ann", "Bo"}
LastNames      == {"Lee"}
EmailAddresses == {<<[email_address |-> "a@x"]>>,
                   <<[email_address |-> "b@x"], [email_address |-> "a@x"]>>}
EventData == [id : UserIds, first_name : FirstNames, last_name : LastNames,
              email_addresses : EmailAddresses, image_url : {"img"}]

\* const userData = { _id, email: email_addresses[0].email_address, name, image }
userData(data) ==
    [_id   |-> data.id,
     email |-> data.email_addresses[1].email_address,
     name  |-> data.first_name \o " " \o data.last_name,
     image |-> data.image_url]

\* Model.create: inserts; a document with the same _id is a duplicate-key error
createThrows(coll, doc) == doc._id \in DOMAIN coll
create(coll, doc) == (doc._id :> doc) @@ coll

\* (mutant of findByIdAndUpdate: the update is run with upsert)
findByIdAndUpdateUpserts(coll, id, update) == (id :> update) @@ coll

\* Model.findByIdAndUpdate(id, update): sets the fields of the document with
\* that id; without the upsert option an absent id changes nothing
findByIdAndUpdate(coll, id, update) ==
    IF id \in DOMAIN coll THEN [coll EXCEPT ![id] = update] ELSE coll

otherThanSync == <<shows, expiryVars, reminderVars, favVars>>

\* clerk/user.created
syncUserCreation(data) ==
    /\ IF createThrows(users, userData(data))
         THEN users' = users
         ELSE users' = create(users, userData(data))
    /\ lastEvent' = [lastEvent EXCEPT ![data.id] = "created"]
    /\ userRun' = [handler |-> "created", id |-> data.id,
                   existed |-> data.id \in DOMAIN users,
                   threw |-> createThrows(users, userData(data))]
    /\ UNCHANGED otherThanSync

\* clerk/user.deleted
syncUserDeletion(id) ==
    /\ users' = findByIdAndDelete(users, id)
    /\ lastEvent' = [lastEvent EXCEPT ![id] = "deleted"]
    /\ userRun' = [handler |-> "deleted", id |-> id,
                   existed |-> id \in DOMAIN users, threw |-> FALSE]
    /\ UNCHANGED otherThanSync

\* clerk/user.updated
syncUserUpdation(data) ==
    /\ users' = findByIdAndUpdate(users, data.id, userData(data))
    /\ userRun' = [handler |-> "updated", id |-> data.id,
                   existed |-> data.id \in DOMAIN users, threw |-> FALSE]
    /\ UNCHANGED <<lastEvent, otherThanSync>>

InitSync ==
    /\ shows = [s \in ShowIds |-> EmptyShow]
    /\ users = Empty
    /\ ExpiryIdle /\ SyncIdle /\ ReminderIdle /\ FavIdle

NextSync ==
    \/ \E data \in EventData : syncUserCreation(data)
    \/ \E id \in UserIds : syncUserDeletion(id)
    \/ \E data \in EventData : syncUserUpdation(data)

SpecSync == InitSync /\ [][NextSync]_vars

\* ------------------------------------------------ booking-expiry workflow
\* One run of releaseSeatsAndDeleteBooking per "app/checkpayment" event.
\*   pc: none -> sleep -> findBooking -> findShow -> save -> delete -> done
\*   booking, show: the documents the step holds in memory (null = <<>>)
\*   saved: the step has saved the show and not (yet) deleted the booking
InitExpiry ==
    /\ shows = [s \in ShowIds |-> EmptyShow]
    /\ users = Empty
    /\ ExpiryIdle /\ SyncIdle /\ ReminderIdle /\ FavIdle

\* what no action of this component writes
otherThanExpiry == <<users, syncVars, reminderVars, favVars>>

\* Booking creation (outside src/): only for seats that are free at that
\* moment; stores the booking unpaid, marks the seats with the user's id and
\* emits "app/checkpayment" for the new booking id.
CreateBooking(b, s, u, seats) ==
    /\ wf[b].pc = "none"
    /\ seats # {}
    /\ seats \cap DOMAIN shows[s].occupiedSeats = {}
    /\ bookings' = (b :> [show |-> s, user |-> u, bookedSeats |-> seats,
                          isPaid |-> FALSE]) @@ bookings
    /\ shows' = [shows EXCEPT ![s].occupiedSeats = [seat \in seats |-> u] @@ @]
    /\ wf' = [wf EXCEPT ![b].pc = "sleep"]
    /\ UNCHANGED <<paidEver, otherThanExpiry>>

\* Payment confirmation (outside src/): sets the paid flag of an existing booking.
ConfirmPayment(b) ==
    /\ b \in DOMAIN bookings
    /\ ~bookings[b].isPaid
    /\ bookings' = [bookings EXCEPT ![b].isPaid = TRUE]
    /\ paidEver' = paidEver \cup {b}
    /\ UNCHANGED <<shows, wf, otherThanExpiry>>

\* step.sleepUntil("wait-for-10-minutes") resumes; the step starts
SleepElapsed(b) ==
    /\ wf[b].pc = "sleep"
    /\ wf' = [wf EXCEPT ![b].pc = "findBooking", ![b].attempts = 1]
    /\ UNCHANGED <<shows, bookings, paidEver, otherThanExpiry>>

\* const booking = await Booking.findById(bookingId); if (!booking.isPaid)
\* Reading .isPaid of null throws a TypeError, which fails the step.
FindBooking(b) ==
    /\ wf[b].pc = "findBooking"
    /\ LET booking == findById(bookings, b) IN
         IF booking = <<>>
           THEN wf' = [wf EXCEPT ![b].pc = "error", ![b].error = "TypeError"]
           ELSE IF notPaid(booking[1])
             THEN wf' = [wf EXCEPT ![b].pc = "findShow", ![b].booking = booking]
             ELSE wf' = [wf EXCEPT ![b].pc = "done"]
    /\ UNCHANGED <<shows, bookings, paidEver, otherThanExpiry>>

\* const show = await Show.findById(booking.show)
FindShow(b) ==
    /\ wf[b].pc = "findShow"
    /\ wf' = [wf EXCEPT ![b].pc = "save",
                        ![b].show = findById(shows, wf[b].booking[1].show)]
    /\ UNCHANGED <<shows, bookings, paidEver, otherThanExpiry>>

\* forEach delete; show.markModified("occupiedSeats"); await show.save()
\* markModified makes save() write the whole in-memory occupiedSeats object.
SaveShow(b) ==
    /\ wf[b].pc = "save"
    /\ LET booking == wf[b].booking[1]
           occupiedSeats == deleteSeats(wf[b].show[1].occupiedSeats,
                                        booking.bookedSeats)
       IN shows' = [shows EXCEPT ![booking.show].occupiedSeats = occupiedSeats]
    /\ wf' = [wf EXCEPT ![b].pc = "delete", ![b].saved = TRUE]
    /\ UNCHANGED <<bookings, paidEver, otherThanExpiry>>

\* await Booking.findByIdAndDelete(booking._id)
DeleteBooking(b) ==
    /\ wf[b].pc = "delete"
    /\ bookings' = findByIdAndDelete(bookings, b)
    /\ wf' = [wf EXCEPT ![b].pc = "done", ![b].saved = FALSE,
                        ![b].booking = <<>>, ![b].show = <<>>]
    /\ UNCHANGED <<shows, paidEver, otherThanExpiry>>

\* The pending await of the step rejects (database unreachable, process
\* killed): nothing is written and the step fails.
AwaitRejects(b) ==
    /\ wf[b].pc \in {"findBooking", "findShow", "save", "delete"}
    /\ wf' = [wf EXCEPT ![b].pc = "error", ![b].error = "Rejected",
                        ![b].booking = <<>>, ![b].show = <<>>]
    /\ UNCHANGED <<shows, bookings, paidEver, otherThanExpiry>>

\* The platform runs a failed step again from its first line.
RetryStep(b) ==
    /\ wf[b].pc = "error"
    /\ wf[b].attempts < MaxAttempts
    /\ wf' = [wf EXCEPT ![b].pc = "findBooking", ![b].attempts = @ + 1,
                        ![b].error = ""]
    /\ UNCHANGED <<shows, bookings, paidEver, otherThanExpiry>>

\* At-least-once execution: a step that completed is executed once more.
RerunStep(b) ==
    /\ wf[b].pc = "done"
    /\ wf[b].attempts < MaxAttempts
    /\ wf' = [wf EXCEPT ![b].pc = "findBooking", ![b].attempts = @ + 1,
                        ![b].reran = TRUE]
    /\ UNCHANGED <<shows, bookings, paidEver, otherThanExpiry>>

NextExpiry ==
    \/ \E b \in BookingIds, s \in ShowIds, u \in UserIds :
         \E seats \in SUBSET SeatLabels : CreateBooking(b, s, u, seats)
    \/ \E b \in BookingIds : ConfirmPayment(b)
    \/ \E b \in BookingIds : SleepElapsed(b)
    \/ \E b \in BookingIds : FindBooking(b)
    \/ \E b \in BookingIds : FindShow(b)
    \/ \E b \in BookingIds : SaveShow(b)
    \/ \E b \in BookingIds : DeleteBooking(b)
    \/ \E b \in BookingIds : AwaitRejects(b)
    \/ \E b \in BookingIds : RetryStep(b)
    \/ \E b \in BookingIds : RerunStep(b)

SpecExpiry == InitExpiry /\ [][NextExpiry]_vars

\* ----------------------------------------------------------- reminder sweep
\* Movie collection (reference data, read-only here)
Movies == [m \in MovieIds |-> [title |-> "Title-" \o m]]

EightHoursMs == 8 * 60 * 60 * 1000
TenMinutesMs == 10 * 60 * 1000

\* const in8Hours = new Date(now.getTime()+8*60*60*1000)
in8Hours(now) == now + EightHoursMs
\* const windowStart = new Date(in8Hours.getTime()-10*60*1000)
windowStart(now) == in8Hours(now) - TenMinutesMs

\* the elements of a finite set in the order the database returns them
RECURSIVE Ordered(_)
Ordered(S) == IF S = {} THEN <<>>
              ELSE LET x == CHOOSE y \in S : TRUE IN <<x>> \o Ordered(S \ {x})

\* Show.find({showTime: {$gte: windowStart, $lte: in8Hours}})
showsInWindow(now) ==
    {s \in DOMAIN shows : /\ shows[s].showTime >= windowStart(now)
                          /\ shows[s].showTime <= in8Hours(now)}

\* .populate('movie'): the referenced movie document, or null
populateMovie(show) ==
    IF show.movie # <<>> /\ show.movie[1] \in DOMAIN Movies
      THEN <<Movies[show.movie[1]]>> ELSE <<>>

\* the tasks pushed for one show (body of the for loop over shows)
tasksOfShow(show) ==
    LET movie   == populateMovie(show)
        userIds == {show.occupiedSeats[seat] : seat \in DOMAIN show.occupiedSeats}
        found   == Ordered(userIds \cap DOMAIN users)
    IN IF movie = <<>> \/ userIds = {}
         THEN <<>>
         ELSE [i \in 1..Len(found) |->
                 [userEmail  |-> users[found[i]].email,
                  userName   |-> users[found[i]].name,
                  movieTitle |-> movie[1].title,
                  showTime   |-> show.showTime]]

\* step 1, "prepare-reminder-tasks"
RECURSIVE tasksOfShows(_)
tasksOfShows(ids) ==
    IF ids = <<>> THEN <<>>
    ELSE tasksOfShow(shows[Head(ids)]) \o tasksOfShows(Tail(ids))

prepareReminderTasks(now) == tasksOfShows(Ordered(showsInWindow(now)))

\* (mutant of countFulfilled: every settled result is counted as sent)
countSettled(results) == Len(results)

\* results.filter(r => r.status === "fulfilled").length
countFulfilled(results) ==
    Cardinality({i \in 1..Len(results) : results[i] = "fulfilled"})

otherThanReminder == <<shows, users, expiryVars, syncVars, favVars>>

\* step 1 and the early return when it produced no task
PrepareTasks ==
    /\ sweep.pc = "idle"
    /\ LET reminderTasks == prepareReminderTasks(0) IN
         IF Len(reminderTasks) = 0
           THEN sweep' = [sweep EXCEPT !.pc = "returned",
                     !.result = <<[sent |-> 0, message |-> "No reminders to send"]>>]
           ELSE sweep' = [sweep EXCEPT !.pc = "send", !.tasks = reminderTasks]
    /\ UNCHANGED otherThanReminder

\* step 2, "send-all-reminders": reminderTasks.map(task => sendEmail(...))
\* starts one send per task
SendAllReminders ==
    /\ sweep.pc = "send"
    /\ sweep' = [sweep EXCEPT !.pc = "settling", !.sendStepRan = TRUE,
                              !.status = [i \in 1..Len(sweep.tasks) |-> "pending"]]
    /\ UNCHANGED otherThanReminder

\* one sendEmail promise settles, on its own
SendSettles(i, outcome) ==
    /\ sweep.pc = "settling"
    /\ i \in 1..Len(sweep.status)
    /\ sweep.status[i] = "pending"
    /\ sweep' = [sweep EXCEPT !.status[i] = outcome]
    /\ UNCHANGED otherThanReminder

\* Promise.allSettled resolves once every send has settled; the summary
ReturnSummary ==
    /\ sweep.pc = "settling"
    /\ \A i \in 1..Len(sweep.status) : sweep.status[i] # "pending"
    /\ LET results == sweep.status
           sent    == countFulfilled(results)
           failed  == Len(results) - sent
       IN sweep' = [sweep EXCEPT !.pc = "returned",
                       !.result = <<[sent |-> sent, failed |-> failed]>>]
    /\ UNCHANGED otherThanReminder

ShowTimes == {windowStart(0) - 1, windowStart(0), in8Hours(0), in8Hours(0) + 1}
ShowDocs == [movie : {<<"m1">>, <<"gone">>}, showTime : ShowTimes,
             occupiedSeats : UNION {[live -> UserIds] : live \in SUBSET SeatLabels}]
UserDoc(u) == [_id |-> u, email |-> u \o "@x", name |-> "Ann Lee", image |-> "img"]

InitReminder ==
    /\ shows \in [ShowIds -> ShowDocs]
    /\ \E present \in SUBSET UserIds : users = [u \in present |-> UserDoc(u)]
    /\ ExpiryIdle /\ SyncIdle /\ ReminderIdle /\ FavIdle

NextReminder ==
    \/ PrepareTasks
    \/ SendAllReminders
    \/ \E i \in 1..(Cardinality(ShowIds) * Cardinality(UserIds)) :
         \E outcome \in {"fulfilled", "rejected"} : SendSettles(i, outcome)
    \/ ReturnSummary

SpecReminder == InitReminder /\ [][NextReminder]_vars

\* ---------------------------------------------------------- favourite toggle
\* privateMetadata.favorites is absent (<<>>) or a list (<<list>>)
Range(list) == {list[i] : i \in 1..Len(list)}

\* favorites.includes(movieId)
includes(favorites, movieId) == movieId \in Range(favorites)

\* (mutant of toggle: the id is pushed without the includes test)
toggleAlwaysPushes(favOpt, movieId) ==
    <<Append(IF favOpt = <<>> THEN <<>> ELSE favOpt[1], movieId)>>

\* lines 27-34: default to [], then push the id or filter it out
toggle(favOpt, movieId) ==
    LET favorites == IF favOpt = <<>> THEN <<>> ELSE favOpt[1] IN
    IF ~includes(favorites, movieId)
      THEN <<Append(favorites, movieId)>>
      ELSE <<SelectSeq(favorites, LAMBDA item : item # movieId)>>

\* (mutant of updateUserMetadata: the toggle is applied to the stored list)
updateUserMetadataRebased(stored, r) == toggle(stored, req[r].movieId)

\* clerkClient.users.updateUserMetadata(userId, {privateMetadata}): the
\* favorites key of the stored metadata is replaced by the request's copy
updateUserMetadata(stored, r) == req[r].user

otherThanFav == <<shows, users, expiryVars, syncVars, reminderVars>>

\* a POST toggle-favorite {movieId} arrives; `alone` records that no other
\* request of the caller is in flight at any time during this one
ReceiveToggle(r, movieId) ==
    /\ req[r].pc \in {"idle", "done"}
    /\ metaWrites.started < MaxToggles
    /\ LET inFlight == {q \in Requests \ {r} : req[q].pc \in {"getUser", "update"}} IN
       req' = [q \in Requests |->
                 IF q = r THEN [ReqIdle EXCEPT !.pc = "getUser", !.movieId = movieId,
                                               !.alone = (inFlight = {})]
                 ELSE IF q \in inFlight THEN [req[q] EXCEPT !.alone = FALSE]
                 ELSE req[q]]
    /\ metaWrites' = [metaWrites EXCEPT !.started = @ + 1]
    /\ UNCHANGED <<clerkMeta, otherThanFav>>

\* const user = await clerkClient.users.getUser(userId), then lines 27-34 on
\* the request's own copy of the metadata
GetUser(r) ==
    /\ req[r].pc = "getUser"
    /\ req' = [req EXCEPT ![r].pc = "update",
                          ![r].read = clerkMeta,
                          ![r].verRead = metaWrites.count,
                          ![r].user = toggle(clerkMeta, req[r].movieId)]
    /\ UNCHANGED <<clerkMeta, metaWrites, otherThanFav>>

\* await clerkClient.users.updateUserMetadata(...); res.json({success: true})
UpdateMetadata(r) ==
    /\ req[r].pc = "update"
    /\ clerkMeta' = updateUserMetadata(clerkMeta, r)
    /\ metaWrites' = [metaWrites EXCEPT !.count = @ + 1, !.last = r]
    /\ req' = [req EXCEPT ![r].pc = "done", ![r].resp = "success"]
    /\ UNCHANGED otherThanFav

\* the lists without a repeated id, over the movie ids
NoDup(list) == \A i, j \in 1..Len(list) : list[i] = list[j] => i = j
FavouriteLists ==
    {list \in UNION {[1..n -> MovieIds] : n \in 0..Cardinality(MovieIds)} : NoDup(list)}

InitFav ==
    /\ shows = [s \in ShowIds |-> EmptyShow]
    /\ users = Empty
    /\ ExpiryIdle /\ SyncIdle /\ ReminderIdle
    /\ clerkMeta \in {<<>>} \cup {<<list>> : list \in FavouriteLists}
    /\ metaWrites = [count |-> 0, last |-> 0, started |-> 0]
    /\ req = [r \in Requests |-> ReqIdle]

NextFav ==
    \/ \E r \in Requests, movieId \in MovieIds : ReceiveToggle(r, movieId)
    \/ \E r \in Requests : GetUser(r)
    \/ \E r \in Requests : UpdateMetadata(r)

SpecFav == InitFav /\ [][NextFav]_vars

\* ------------------------------------------- claims: booking-expiry workflow
\* some existing booking other than b lists the seat on show s and owns its entry
HeldByOther(b, s, seat) ==
    \E o \in DOMAIN bookings \ {b} :
        /\ bookings[o].show = s
        /\ seat \in bookings[o].bookedSeats
        /\ seat \in DOMAIN shows[s].occupiedSeats
        /\ shows[s].occupiedSeats[seat] = bookings[o].user

\* the step of b has saved the show and has not deleted the booking yet
Partway(b) == wf[b].saved /\ wf[b].pc # "done"

\* C1: a run of the check-payment step that finds its booking unpaid goes on
\* to release; its save leaves the show's mapping equal to the mapping the
\* step loaded minus exactly the booking's seat labels (every other entry
\* kept with its owner, every other show untouched), and its delete removes
\* the booking and no other booking.
C1_ReleaseExactlyBookedSeats ==
    [][\A b \in BookingIds :
        /\ ( /\ wf[b].pc = "findBooking"
             /\ b \in DOMAIN bookings
             /\ ~bookings[b].isPaid
             /\ wf'[b].pc \notin {"findBooking", "error"} )
           => wf'[b].pc = "findShow" /\ wf'[b].booking = <<bookings[b]>>
        /\ (wf[b].pc = "save" /\ wf'[b].pc = "delete")
           => LET bk  == wf[b].booking[1]
                  old == wf[b].show[1].occupiedSeats
                  new == shows'[bk.show].occupiedSeats
              IN /\ DOMAIN new = DOMAIN old \ bk.bookedSeats
                 /\ \A seat \in DOMAIN old \ bk.bookedSeats : new[seat] = old[seat]
                 /\ \A s \in ShowIds \ {bk.show} : shows'[s] = shows[s]
        /\ (wf[b].pc = "delete" /\ wf'[b].pc = "done")
           => /\ b \notin DOMAIN bookings'
              /\ DOMAIN bookings' = DOMAIN bookings \ {b}
              /\ \A o \in DOMAIN bookings' : bookings'[o] = bookings[o]
      ]_vars

\* C1 witness: a first run has released b's seats and deleted b while a seat
\* of another booking on the same show is still held by its owner.
C1_Witness ==
    \E b \in BookingIds, o \in DOMAIN bookings :
        /\ wf[b].pc = "done" /\ wf[b].attempts = 1
        /\ b \notin DOMAIN bookings
        /\ b \notin paidEver
        /\ o # b
        /\ \A seat \in bookings[o].bookedSeats : HeldByOther(b, bookings[o].show, seat)
        /\ DOMAIN shows[bookings[o].show].occupiedSeats = bookings[o].bookedSeats

\* C2: a run of the check-payment step that finds its booking paid ends at
\* once and changes neither any show nor any booking.
C2_PaidBookingUntouched ==
    [][\A b \in BookingIds :
        ( /\ wf[b].pc = "findBooking"
          /\ b \in DOMAIN bookings
          /\ bookings[b].isPaid
          /\ wf'[b] # wf[b] )
        => /\ wf'[b].pc \in {"done", "error"}
           /\ wf'[b].pc = "error" => wf'[b].error = "Rejected"
           /\ shows' = shows
           /\ bookings' = bookings
      ]_vars

\* C2 witness: the step has finished for a paid booking that still exists
\* with all its seats in the show's mapping.
C2_Witness ==
    \E b \in DOMAIN bookings :
        /\ wf[b].pc = "done"
        /\ bookings[b].isPaid
        /\ \A seat \in bookings[b].bookedSeats :
              /\ seat \in DOMAIN shows[bookings[b].show].occupiedSeats
              /\ shows[bookings[b].show].occupiedSeats[seat] = bookings[b].user

\* C3 (as claimed): a second run of the step, after a first run has deleted
\* the unpaid booking, completes without raising an error.
C3_RerunIsSuccessfulNoOp ==
    \A b \in BookingIds :
        (wf[b].reran /\ b \notin DOMAIN bookings) => wf[b].error # "TypeError"

\* C4 (as claimed): the save of a re-run after a partial completion removes
\* no entry that is held at that moment by a different existing booking.
C4_RerunNeverDoubleFrees ==
    [][\A b \in BookingIds :
        (wf[b].pc = "save" /\ wf'[b].pc = "delete" /\ wf[b].saved)
        => LET s == wf[b].booking[1].show IN
           \A seat \in SeatLabels :
               HeldByOther(b, s, seat)
               => /\ seat \in DOMAIN shows'[s].occupiedSeats
                  /\ shows'[s].occupiedSeats[seat] = shows[s].occupiedSeats[seat]
      ]_vars

\* C5 (as claimed): whenever no step is partway through its writes, a seat
\* label is in a show's mapping iff an existing booking on that show lists it.
C5_SeatsMatchBookings ==
    (\A b \in BookingIds : ~Partway(b))
    => \A s \in ShowIds, seat \in SeatLabels :
          seat \in DOMAIN shows[s].occupiedSeats
          <=> \E b \in DOMAIN bookings :
                 bookings[b].show = s /\ seat \in bookings[b].bookedSeats

\* C10 (as claimed): when the step of a booking whose payment was confirmed
\* before the step's delete has finished, the booking still exists and its
\* seats are still in the show's mapping.
C10_PaidBookingSurvives ==
    \A b \in paidEver :
        wf[b].pc = "done"
        => /\ b \in DOMAIN bookings
           /\ \A seat \in bookings[b].bookedSeats :
                  seat \in DOMAIN shows[bookings[b].show].occupiedSeats

\* ------------------------------------------------ claims: user sync handlers
\* C6: a user record with an id exists iff the most recent creation-or-
\* deletion event for that id was a creation (so creation then deletion
\* leaves no record), and an update event for an id with no record does not
\* throw and creates no record.
C6_RecordIffLastEventCreation ==
    /\ \A id \in UserIds : id \in DOMAIN users <=> lastEvent[id] = "created"
    /\ (userRun.handler = "updated" /\ ~userRun.existed)
       => ~userRun.threw /\ userRun.id \notin DOMAIN users
    /\ (userRun.handler = "deleted") => userRun.id \notin DOMAIN users

\* C6 witness: an identity was created and then deleted, and an update event
\* for it has just run against no record.
C6_Witness ==
    /\ userRun.handler = "updated" /\ ~userRun.existed
    /\ lastEvent[userRun.id] = "deleted"
    /\ userRun.id \notin DOMAIN users
    /\ \E id \in DOMAIN users : lastEvent[id] = "created"

\* -------------------------------------------------- claims: reminder sweep
Fulfilled == {i \in 1..Len(sweep.status) : sweep.status[i] = "fulfilled"}
Rejected  == {i \in 1..Len(sweep.status) : sweep.status[i] = "rejected"}

\* C7: with N >= 1 tasks every send is started and settles whatever the
\* others do, and the summary has sent = number of fulfilled sends and
\* sent + failed = N; with no task the sweep returns sent = 0 and the send
\* step never runs.
C7_SweepSummary ==
    LET N == Len(sweep.tasks) IN
    /\ sweep.pc \in {"settling", "returned"} /\ N >= 1
       => sweep.sendStepRan /\ Len(sweep.status) = N
    /\ sweep.pc = "returned" /\ N >= 1
       => /\ Fulfilled \cup Rejected = 1..N
          /\ sweep.result[1].sent = Cardinality(Fulfilled)
          /\ sweep.result[1].failed = Cardinality(Rejected)
          /\ sweep.result[1].sent + sweep.result[1].failed = N
    /\ sweep.pc = "returned" /\ N = 0
       => sweep.result[1].sent = 0 /\ ~sweep.sendStepRan
    /\ sweep.pc = "send" => N >= 1
    /\ N = 0 => sweep.pc \in {"idle", "returned"}

\* C7 witness: a sweep over three or more tasks has returned with exactly one
\* send failed.
C7_Witness ==
    /\ sweep.pc = "returned"
    /\ Len(sweep.tasks) >= 3
    /\ Cardinality(Rejected) = 1
    /\ sweep.result[1].failed = 1
    /\ sweep.result[1].sent = Len(sweep.tasks) - 1

\* ------------------------------------------------ claims: favourite toggle
\* the stored list ([] when the field is absent)
Stored(meta) == IF meta = <<>> THEN <<>> ELSE meta[1]
Without(list, movieId) == SelectSeq(list, LAMBDA item : item # movieId)
Count(list, movieId) == Cardinality({i \in 1..Len(list) : list[i] = movieId})

\* C8: a toggle with no concurrent request has no metadata write between its
\* read and its write; every such toggle writes back the list with an absent id added exactly
\* once, or with a present id removed, every other entry kept in place; so
\* membership of the id flips at each toggle; and the stored list never
\* holds the same id twice.
C8_ToggleFlipsMembership ==
    /\ [][\A r \in Requests :
            (req[r].pc = "update" /\ req'[r].pc = "done" /\ req[r].alone)
            => req[r].verRead = metaWrites.count
         ]_vars
    /\ [][\A r \in Requests :
            (req[r].pc = "update" /\ req'[r].pc = "done"
                /\ req[r].verRead = metaWrites.count)
            => LET old == Stored(clerkMeta)
                   new == Stored(clerkMeta')
                   id  == req[r].movieId
               IN /\ clerkMeta' # <<>>
                  /\ req'[r].resp = "success"
                  /\ Without(new, id) = Without(old, id)
                  /\ Count(old, id) = 0 => Count(new, id) = 1
                  /\ Count(old, id) > 0 => Count(new, id) = 0
         ]_vars
    /\ [](NoDup(Stored(clerkMeta)))

\* C8 witness: the second of two successive toggles of the same id has been
\* written, and the stored list is again the list the first toggle read.
C8_Witness ==
    \E r \in Requests : \E o \in Requests \ {r} :
        /\ req[r].pc = "done" /\ req[o].pc = "done"
        /\ req[r].alone /\ req[o].alone
        /\ metaWrites.last = r
        /\ req[r].movieId = req[o].movieId
        /\ req[r].verRead = req[o].verRead + 1
        /\ metaWrites.count = req[r].verRead + 1
        /\ Len(Stored(req[o].read)) >= 2
        /\ Range(Stored(clerkMeta)) = Range(Stored(req[o].read))

\* C9: whenever two requests for different ids have both read the same
\* version of the metadata and both answered success, the stored list is the
\* later writer's copy: the later writer's toggle shows, the earlier writer's
\* id is in the list exactly as it was before either request (lost update).
C9_LostUpdate ==
    \A r \in Requests : \A o \in Requests \ {r} :
        ( /\ req[r].pc = "done" /\ req[o].pc = "done"
          /\ req[r].resp = "success" /\ req[o].resp = "success"
          /\ req[r].verRead = req[o].verRead
          /\ req[r].movieId # req[o].movieId
          /\ metaWrites.last = r
          /\ metaWrites.count = req[r].verRead + 2 )
        => /\ includes(Stored(clerkMeta), req[r].movieId)
                # includes(Stored(req[r].read), req[r].movieId)
           /\ includes(Stored(clerkMeta), req[o].movieId)
                = includes(Stored(req[o].read), req[o].movieId)

\* C9 witness: two requests for different ids read the same metadata, both
\* wrote and answered success, and the first writer's id is missing.
C9_Witness ==
    \E r \in Requests : \E o \in Requests \ {r} :
        /\ req[r].pc = "done" /\ req[o].pc = "done"
        /\ req[r].resp = "success" /\ req[o].resp = "success"
        /\ req[r].verRead = req[o].verRead
        /\ req[r].movieId # req[o].movieId
        /\ metaWrites.last = r
        /\ metaWrites.count = req[r].verRead + 2
        /\ ~includes(Stored(req[o].read), req[o].movieId)
        /\ ~includes(Stored(clerkMeta), req[o].movieId)
        /\ includes(Stored(clerkMeta), req[r].movieId)

====
